---- MODULE Spec2Model ----
(***************************************************************************)
(* Model of the NCV7240 driver (src/ncv7240.py): the 2-byte shadow         *)
(* register `reg`, the bit packing of _update, the public mode-set and     *)
(* status-read methods, and the bus bracketing of _write and _exchange.    *)
(*                                                                         *)
(* One caller drives the instance; a public call runs as a series of       *)
(* steps (pc) so that the order of the collaborator calls lock, select,    *)
(* write/exchange, unselect, done, unlock is part of the behaviour.  The   *)
(* SPI collaborator (spi.Spi) is the environment: its transfer succeeds    *)
(* or raises, and an exchange that succeeds returns a status word.         *)
(***************************************************************************)
EXTENDS Integers, Sequences, FiniteSets

(***************************************************************************)
(* Program constants.                                                      *)
(***************************************************************************)
CH_STANDBY == 0
CH_INPUT == 1
CH_ON == 2
CH_OFF == 3
CH_OPEN == 2
CH_FAULT == 1
_CH_MASK == 3
_ALL_MASK == 85

\* Channel indices are 0..7 (docstrings: "Index of the channel (0-7)").
NumChannels == 8
Channels == 0 .. (NumChannels - 1)
Modes == {CH_STANDBY, CH_INPUT, CH_ON, CH_OFF}
Byte == 0 .. 255

(***************************************************************************)
(* Bounds of the model.                                                    *)
(***************************************************************************)
\* Public calls made by the caller in one behaviour.
MaxOps == 2

(***************************************************************************)
(* Python's integer operators, on unbounded two's-complement integers.     *)
(* \div is floor division and % the non-negative remainder, so x \div 2    *)
(* and x % 2 are the arithmetic shift and the low bit of negative x too.   *)
(***************************************************************************)
Pow2(n) == 2 ^ n

RECURSIVE And(_, _)
And(a, b) ==
    IF a = 0 \/ b = 0 THEN 0
    ELSE IF a = -1 THEN b
    ELSE IF b = -1 THEN a
    ELSE (a % 2) * (b % 2) + 2 * And(a \div 2, b \div 2)

RECURSIVE Or(_, _)
Or(a, b) ==
    IF a = 0 THEN b
    ELSE IF b = 0 THEN a
    ELSE IF a = -1 \/ b = -1 THEN -1
    ELSE (IF a % 2 = 1 \/ b % 2 = 1 THEN 1 ELSE 0) + 2 * Or(a \div 2, b \div 2)

Not(a) == -a - 1
Shl(a, n) == a * Pow2(n)
Shr(a, n) == a \div Pow2(n)

(***************************************************************************)
(* Values.  A 2-byte buffer is a function on the Python indices 0 and 1.   *)
(* An entry of the list given to setAllChannels is None or a mode; the     *)
(* model writes None as the empty tuple and the mode m as <<m>>.           *)
(***************************************************************************)
None == << >>
Some(m) == << m >>
bytearray2 == [k \in 0 .. 1 |-> 0]

\* Status words the exchange may return: the word of the spec's scenario,
\* the all-clear word, and four words whose bytes carry every code in
\* every field position (0xE4, 0x39, 0x4E, 0x93 hold 0,1,2,3 rotated).
StatusWords ==
    { [k \in 0 .. 1 |-> w[k + 1]] :
        w \in { <<64, 0>>, <<0, 0>>, <<228, 57>>, <<57, 78>>, <<78, 147>>, <<147, 228>> } }

\* Exceptions the transfer of the SPI collaborator may raise.
Exceptions == {"TransportError", "TimeoutError"}

\* Lists the caller may pass to setAllChannels: every all-None list of
\* length 0..8; every list whose last entry is its only mode (every index,
\* every mode); and four lists holding several modes between None entries.
ModeLists ==
    { [k \in 1 .. n |-> None] : n \in 0 .. NumChannels }
    \cup { [k \in 1 .. p |-> IF k = p THEN Some(m) ELSE None] :
              p \in 1 .. NumChannels, m \in Modes }
    \cup { << Some(CH_ON), None, Some(CH_OFF) >>,
           << None, Some(CH_INPUT), None, None, Some(CH_ON), Some(CH_OFF), None >>,
           << None, None, None, Some(CH_STANDBY), Some(CH_INPUT), None, None, Some(CH_ON) >>,
           << Some(CH_OFF), Some(CH_ON), Some(CH_INPUT), Some(CH_STANDBY),
              Some(CH_STANDBY), Some(CH_INPUT), Some(CH_ON), Some(CH_OFF) >> }

VARIABLES
    reg,      \* self.reg, the shadow register
    pc,       \* position of the caller inside the current public call
    opName,   \* the public method being executed
    channel,  \* its channel argument
    mode,     \* its mode argument (setChannel, uniform setAllChannels)
    modes,    \* its list argument (per-channel setAllChannels)
    i,        \* loop index of setAllChannels
    ex,       \* the local ex of _write/_exchange
    thrown,   \* the exception raised inside the try block of the current call
    stat,     \* the local stat of _exchange and of the getters
    outcome,  \* how the public call ended: "pending", "returned", "raised"
    ret,      \* the value returned, or the exception raised to the caller
    chip,     \* command word held by the chip at the other end of the bus
    locked,   \* lock() calls minus unlock() calls on the collaborator
    selected, \* select() calls minus unselect() calls on the collaborator
    bus,      \* collaborator calls made by the current public call, in order
    sent,     \* payloads handed to write/exchange by the current public call
    pre,      \* reg when the current public call began
    chipPre,  \* chip when the current public call began
    cmd,      \* last mode the caller commanded for each channel
    nops,     \* public calls made so far
    thr       \* two callers sharing the instance: where each is in setChannel

vars == << reg, pc, opName, channel, mode, modes, i, ex, thrown, stat, outcome, ret,
           chip, locked, selected, bus, sent, pre, chipPre, cmd, nops, thr >>

frame == << opName, channel, mode, modes, pre, chipPre, cmd, nops, thr >>

\* Two threads that share one NCV7240 instance, and the state of a thread
\* that has not called yet.
Callers == {"A", "B"}
NotCalling ==
    [pc |-> "idle", channel |-> 0, mode |-> 0, byte |-> 0, stale |-> FALSE, ex |-> "none"]

(***************************************************************************)
(* __init__                                                                *)
(***************************************************************************)
Init ==
    /\ reg = bytearray2
    /\ pc = "idle"
    /\ opName = "none"
    /\ channel = 0
    /\ mode = 0
    /\ modes = << >>
    /\ i = 0
    /\ ex = "none"
    /\ thrown = "none"
    /\ stat = << >>
    /\ outcome = "pending"
    /\ ret = << >>
    /\ chip = bytearray2
    /\ locked = 0
    /\ selected = 0
    /\ bus = << >>
    /\ sent = << >>
    /\ pre = bytearray2
    /\ chipPre = bytearray2
    /\ cmd = [c \in Channels |-> CH_STANDBY]
    /\ nops = 0
    /\ thr = [t \in Callers |-> NotCalling]

(***************************************************************************)
(* _update: the new contents of reg.                                       *)
(***************************************************************************)
\* Variant: channels 0..3 go to byte 0 and channels 4..7 to byte 1.
_update_swapsBytes(r, ch, m) ==
    LET c2 == ch * 2 IN
    IF c2 < 8
    THEN [r EXCEPT ![0] = Or(And(r[0], Not(Shl(_CH_MASK, c2))), Shl(m, c2))]
    ELSE LET c3 == c2 - 8 IN
         [r EXCEPT ![1] = Or(And(r[1], Not(Shl(_CH_MASK, c3))), Shl(m, c3))]

\* Variant: the field is not cleared before the mode is or-ed in.
_update_keepsOldBits(r, ch, m) ==
    LET c2 == ch * 2 IN
    IF c2 < 8
    THEN [r EXCEPT ![1] = Or(r[1], Shl(m, c2))]
    ELSE LET c3 == c2 - 8 IN
         [r EXCEPT ![0] = Or(r[0], Shl(m, c3))]

_update(r, ch, m) ==
    LET c2 == ch * 2 IN
    IF c2 < 8
    THEN [r EXCEPT ![1] = Or(And(r[1], Not(Shl(_CH_MASK, c2))), Shl(m, c2))]
    ELSE LET c3 == c2 - 8 IN
         [r EXCEPT ![0] = Or(And(r[0], Not(Shl(_CH_MASK, c3))), Shl(m, c3))]

\* Variant: only the low byte is stored.
setAll_lowByteOnly(r, m) == [r EXCEPT ![1] = m * _ALL_MASK]

\* setAllChannels, single mode: the two stores into self.reg
setAll(r, m) == [r EXCEPT ![0] = m * _ALL_MASK, ![1] = m * _ALL_MASK]

\* Variant: a None entry is written as mode 0 instead of being skipped.
setEntry_noneAsStandby(r, k, entry) ==
    _update(r, k, IF entry # None THEN entry[1] ELSE CH_STANDBY)

\* setAllChannels, list: the body of the loop for index k and its entry
setEntry(r, k, entry) == IF entry # None THEN _update(r, k, entry[1]) ELSE r

(***************************************************************************)
(* Decoding of a status word: the value getChannel returns for a channel,  *)
(* and the tuple getAllChannels returns.                                   *)
(***************************************************************************)
\* Variant: the shift is the channel index, not twice the index.
getChannelResult_shiftsByIndex(s, ch) ==
    IF ch * 2 < 8
    THEN And(Shr(s[1], ch), _CH_MASK)
    ELSE And(Shr(s[0], ch - 4), _CH_MASK)

getChannelResult(s, ch) ==
    LET c2 == ch * 2 IN
    IF c2 < 8
    THEN And(Shr(s[1], c2), _CH_MASK)
    ELSE LET c3 == c2 - 8 IN And(Shr(s[0], c3), _CH_MASK)

\* Variant: channels 0..3 are read from byte 0 and channels 4..7 from byte 1.
getAllChannelsResult_swapsBytes(s) ==
    << And(Shr(s[0], 0), _CH_MASK),
       And(Shr(s[0], 2), _CH_MASK),
       And(Shr(s[0], 4), _CH_MASK),
       And(Shr(s[0], 6), _CH_MASK),
       And(Shr(s[1], 0), _CH_MASK),
       And(Shr(s[1], 2), _CH_MASK),
       And(Shr(s[1], 4), _CH_MASK),
       And(Shr(s[1], 6), _CH_MASK) >>

getAllChannelsResult(s) ==
    << And(Shr(s[1], 0), _CH_MASK),
       And(Shr(s[1], 2), _CH_MASK),
       And(Shr(s[1], 4), _CH_MASK),
       And(Shr(s[1], 6), _CH_MASK),
       And(Shr(s[0], 0), _CH_MASK),
       And(Shr(s[0], 2), _CH_MASK),
       And(Shr(s[0], 4), _CH_MASK),
       And(Shr(s[0], 6), _CH_MASK) >>

\* Variant: isChannelOpen tests the fault bit.
isChannelOpenResult_testsFault(s, ch) ==
    And(getChannelResult(s, ch), CH_FAULT) # 0

\* isChannelOpen: return (self.getChannel(channel) & NCV7240.CH_OPEN) != 0, and
\* isChannelFault the same with CH_FAULT.
isChannelOpenResult(s, ch) == And(getChannelResult(s, ch), CH_OPEN) # 0
isChannelFaultResult(s, ch) == And(getChannelResult(s, ch), CH_FAULT) # 0

\* The methods that read status go through _exchange, the others through _write.
Getters == {"getChannel", "getAllChannels", "isChannelOpen", "isChannelFault"}
Wrappers == {"channelInputMode", "channelStandby", "channelOn", "channelOff"}
Setters == {"setChannel", "setAllChannels", "setAllChannelsList"} \cup Wrappers

(***************************************************************************)
(* Entry of a public call: the caller's arguments are bound and the        *)
(* records kept per call start afresh.                                     *)
(***************************************************************************)
\* The caller is between calls and has calls left to make.
CanCall == pc = "idle" /\ nops < MaxOps

Enter(name, c, m, ms, newcmd, first) ==
    /\ pc' = first
    /\ opName' = name
    /\ channel' = c
    /\ mode' = m
    /\ modes' = ms
    /\ i' = 0
    /\ pre' = reg
    /\ chipPre' = chip
    /\ cmd' = newcmd
    /\ nops' = nops + 1
    /\ UNCHANGED << reg, ex, thrown, stat, outcome, ret, chip, locked, selected, bus, sent, thr >>

\* setChannel(channel, mode)
setChannel ==
    /\ CanCall
    /\ \E c \in Channels, m \in Modes :
        Enter("setChannel", c, m, << >>, [cmd EXCEPT ![c] = m], "update")

\* setAllChannels(mode) with a single mode: the else branch of the type test
setAllChannels ==
    /\ CanCall
    /\ \E m \in Modes :
        Enter("setAllChannels", 0, m, << >>, [c \in Channels |-> m], "uniform")

\* setAllChannels(mode) with a list or tuple: the loop branch of the type test
setAllChannelsList ==
    /\ CanCall
    /\ \E ms \in ModeLists :
        Enter("setAllChannelsList", 0, 0, ms,
              [c \in Channels |->
                  IF c + 1 <= Len(ms) /\ ms[c + 1] # None THEN ms[c + 1][1] ELSE cmd[c]],
              "loop")

\* channelInputMode(channel): self.setChannel(channel, NCV7240.CH_INPUT)
channelInputMode ==
    /\ CanCall
    /\ \E c \in Channels :
        Enter("channelInputMode", c, CH_INPUT, << >>, [cmd EXCEPT ![c] = CH_INPUT], "update")

\* channelStandby(channel): self.setChannel(channel, NCV7240.CH_STANDBY)
channelStandby ==
    /\ CanCall
    /\ \E c \in Channels :
        Enter("channelStandby", c, CH_STANDBY, << >>, [cmd EXCEPT ![c] = CH_STANDBY], "update")

\* Variant: channelOn passes the code of channelOff.
channelOn_passesOff ==
    /\ CanCall
    /\ \E c \in Channels :
        Enter("channelOn", c, CH_OFF, << >>, [cmd EXCEPT ![c] = CH_OFF], "update")

\* channelOn(channel): self.setChannel(channel, NCV7240.CH_ON)
channelOn ==
    /\ CanCall
    /\ \E c \in Channels :
        Enter("channelOn", c, CH_ON, << >>, [cmd EXCEPT ![c] = CH_ON], "update")

\* channelOff(channel): self.setChannel(channel, NCV7240.CH_OFF)
channelOff ==
    /\ CanCall
    /\ \E c \in Channels :
        Enter("channelOff", c, CH_OFF, << >>, [cmd EXCEPT ![c] = CH_OFF], "update")

\* getChannel(channel)
getChannel ==
    /\ CanCall
    /\ \E c \in Channels :
        Enter("getChannel", c, 0, << >>, cmd, "lock")

\* getAllChannels()
getAllChannels ==
    /\ CanCall
    /\ Enter("getAllChannels", 0, 0, << >>, cmd, "lock")

\* isChannelOpen(channel)
isChannelOpen ==
    /\ CanCall
    /\ \E c \in Channels :
        Enter("isChannelOpen", c, 0, << >>, cmd, "lock")

\* isChannelFault(channel)
isChannelFault ==
    /\ CanCall
    /\ \E c \in Channels :
        Enter("isChannelFault", c, 0, << >>, cmd, "lock")

(***************************************************************************)
(* Shadow updates.                                                         *)
(***************************************************************************)
\* setChannel: self._update(channel, mode)
Update ==
    /\ pc = "update"
    /\ reg' = _update(reg, channel, mode)
    /\ pc' = "lock"
    /\ UNCHANGED << i, ex, thrown, stat, outcome, ret, chip, locked, selected, bus, sent >>
    /\ UNCHANGED frame

\* setAllChannels, single mode: both bytes are set to mode * _ALL_MASK
Uniform ==
    /\ pc = "uniform"
    /\ reg' = setAll(reg, mode)
    /\ pc' = "lock"
    /\ UNCHANGED << i, ex, thrown, stat, outcome, ret, chip, locked, selected, bus, sent >>
    /\ UNCHANGED frame

\* Variant: the loop transmits the shadow after every entry it applies.
Loop_writesEachEntry ==
    /\ pc = "loop"
    /\ IF i < Len(modes)
       THEN /\ reg' = setEntry(reg, i, modes[i + 1])
            /\ i' = i + 1
            /\ pc' = "loop"
            /\ IF modes[i + 1] # None
               THEN /\ bus' = Append(bus, "write")
                    /\ sent' = Append(sent, reg')
               ELSE UNCHANGED << bus, sent >>
       ELSE /\ pc' = "lock"
            /\ UNCHANGED << reg, i, bus, sent >>
    /\ UNCHANGED << ex, thrown, stat, outcome, ret, chip, locked, selected >>
    /\ UNCHANGED frame

\* setAllChannels, list: one turn of the while loop, or its exit
Loop ==
    /\ pc = "loop"
    /\ IF i < Len(modes)
       THEN /\ reg' = setEntry(reg, i, modes[i + 1])
            /\ i' = i + 1
            /\ pc' = "loop"
       ELSE /\ pc' = "lock"
            /\ UNCHANGED << reg, i >>
    /\ UNCHANGED << ex, thrown, stat, outcome, ret, chip, locked, selected, bus, sent >>
    /\ UNCHANGED frame

(***************************************************************************)
(* _write and _exchange: the bracket around the one transfer.              *)
(***************************************************************************)
\* Variant: the device is selected before the bus is locked.
Lock_selectsFirst ==
    /\ pc = "lock"
    /\ selected' = selected + 1
    /\ locked' = locked + 1
    /\ bus' = bus \o << "select", "lock" >>
    /\ pc' = "transfer"
    /\ UNCHANGED << reg, i, ex, thrown, stat, outcome, ret, chip, sent >>
    /\ UNCHANGED frame

\* self.lock()
Lock ==
    /\ pc = "lock"
    /\ locked' = locked + 1
    /\ bus' = Append(bus, "lock")
    /\ pc' = "select"
    /\ UNCHANGED << reg, i, ex, thrown, stat, outcome, ret, chip, selected, sent >>
    /\ UNCHANGED frame

\* self.select()
Select ==
    /\ pc = "select"
    /\ selected' = selected + 1
    /\ bus' = Append(bus, "select")
    /\ pc' = "transfer"
    /\ UNCHANGED << reg, i, ex, thrown, stat, outcome, ret, chip, locked, sent >>
    /\ UNCHANGED frame

\* Variant: the word transmitted is the shadow of before the call.
Write_sendsOldShadow ==
    /\ pc = "transfer"
    /\ opName \in Setters
    /\ bus' = Append(bus, "write")
    /\ sent' = Append(sent, pre)
    /\ \/ /\ chip' = pre
          /\ UNCHANGED << ex, thrown >>
       \/ /\ chip' \in {chip, pre}
          /\ thrown' \in Exceptions
          /\ ex' = thrown'
    /\ pc' = "unselect"
    /\ UNCHANGED << reg, i, stat, outcome, ret, locked, selected >>
    /\ UNCHANGED frame

\* self.write(self.reg): the chip takes the word, or the call raises and
\* the chip holds its old word or the one just sent.
Write ==
    /\ pc = "transfer"
    /\ opName \in Setters
    /\ bus' = Append(bus, "write")
    /\ sent' = Append(sent, reg)
    /\ \/ /\ chip' = reg
          /\ UNCHANGED << ex, thrown >>
       \/ /\ chip' \in {chip, reg}
          /\ thrown' \in Exceptions
          /\ ex' = thrown'
    /\ pc' = "unselect"
    /\ UNCHANGED << reg, i, stat, outcome, ret, locked, selected >>
    /\ UNCHANGED frame

\* Variant: a zeroed buffer is sent in place of self.reg.
Exchange_sendsZeros ==
    /\ pc = "transfer"
    /\ opName \in Getters
    /\ bus' = Append(bus, "exchange")
    /\ sent' = Append(sent, bytearray2)
    /\ \/ /\ chip' = bytearray2
          /\ stat' \in StatusWords
          /\ UNCHANGED << ex, thrown >>
       \/ /\ chip' \in {chip, bytearray2}
          /\ thrown' \in Exceptions
          /\ ex' = thrown'
          /\ stat' = stat
    /\ pc' = "unselect"
    /\ UNCHANGED << reg, i, outcome, ret, locked, selected >>
    /\ UNCHANGED frame

\* Variant: the response is stored into self.reg.
Exchange_storesStatus ==
    /\ pc = "transfer"
    /\ opName \in Getters
    /\ bus' = Append(bus, "exchange")
    /\ sent' = Append(sent, reg)
    /\ \/ /\ chip' = reg
          /\ stat' \in StatusWords
          /\ reg' = stat'
          /\ UNCHANGED << ex, thrown >>
       \/ /\ chip' \in {chip, reg}
          /\ thrown' \in Exceptions
          /\ ex' = thrown'
          /\ UNCHANGED << stat, reg >>
    /\ pc' = "unselect"
    /\ UNCHANGED << i, outcome, ret, locked, selected >>
    /\ UNCHANGED frame

\* stat = self.exchange(self.reg)
Exchange ==
    /\ pc = "transfer"
    /\ opName \in Getters
    /\ bus' = Append(bus, "exchange")
    /\ sent' = Append(sent, reg)
    /\ \/ /\ chip' = reg
          /\ stat' \in StatusWords
          /\ UNCHANGED << ex, thrown >>
       \/ /\ chip' \in {chip, reg}
          /\ thrown' \in Exceptions
          /\ ex' = thrown'
          /\ stat' = stat
    /\ pc' = "unselect"
    /\ UNCHANGED << reg, i, outcome, ret, locked, selected >>
    /\ UNCHANGED frame

\* Variant: the release is skipped when the transfer raised (the three
\* release calls placed inside the try block).
Unselect_skippedOnError ==
    /\ pc = "unselect"
    /\ IF ex # "none"
       THEN /\ outcome' = "raised"
            /\ ret' = ex
            /\ pc' = "ret"
            /\ UNCHANGED << selected, bus >>
       ELSE /\ selected' = selected - 1
            /\ bus' = Append(bus, "unselect")
            /\ pc' = "done"
            /\ UNCHANGED << outcome, ret >>
    /\ UNCHANGED << reg, i, ex, thrown, stat, chip, locked, sent >>
    /\ UNCHANGED frame

\* self.unselect()
Unselect ==
    /\ pc = "unselect"
    /\ selected' = selected - 1
    /\ bus' = Append(bus, "unselect")
    /\ pc' = "done"
    /\ UNCHANGED << reg, i, ex, thrown, stat, outcome, ret, chip, locked, sent >>
    /\ UNCHANGED frame

\* self.done()
Done ==
    /\ pc = "done"
    /\ bus' = Append(bus, "done")
    /\ pc' = "unlock"
    /\ UNCHANGED << reg, i, ex, thrown, stat, outcome, ret, chip, locked, selected, sent >>
    /\ UNCHANGED frame

\* The value a getter computes from stat.
Result ==
    CASE opName = "getChannel" -> getChannelResult(stat, channel)
      [] opName = "getAllChannels" -> getAllChannelsResult(stat)
      [] opName = "isChannelOpen" -> isChannelOpenResult(stat, channel)
      [] opName = "isChannelFault" -> isChannelFaultResult(stat, channel)
      [] OTHER -> None

\* Variant: the shadow is restored to its value at call entry before the
\* exception is raised.
Unlock_rollsBack ==
    /\ pc = "unlock"
    /\ locked' = locked - 1
    /\ bus' = Append(bus, "unlock")
    /\ IF ex # "none"
       THEN outcome' = "raised" /\ ret' = ex /\ reg' = pre
       ELSE outcome' = "returned" /\ ret' = Result /\ reg' = reg
    /\ pc' = "ret"
    /\ UNCHANGED << i, ex, thrown, stat, chip, selected, sent >>
    /\ UNCHANGED frame

\* self.unlock(), then: if ex is not None: raise ex; otherwise _write or
\* _exchange returns and the public method returns its value.
Unlock ==
    /\ pc = "unlock"
    /\ locked' = locked - 1
    /\ bus' = Append(bus, "unlock")
    /\ IF ex # "none"
       THEN outcome' = "raised" /\ ret' = ex
       ELSE outcome' = "returned" /\ ret' = Result
    /\ pc' = "ret"
    /\ UNCHANGED << reg, i, ex, thrown, stat, chip, selected, sent >>
    /\ UNCHANGED frame

\* The caller has the result and is free to make the next call.
Resume ==
    /\ pc = "ret"
    /\ pc' = "idle"
    /\ opName' = "none"
    /\ channel' = 0
    /\ mode' = 0
    /\ modes' = << >>
    /\ i' = 0
    /\ ex' = "none"
    /\ thrown' = "none"
    /\ stat' = << >>
    /\ outcome' = "pending"
    /\ ret' = << >>
    /\ bus' = << >>
    /\ sent' = << >>
    /\ pre' = reg
    /\ chipPre' = chip
    /\ UNCHANGED << reg, chip, locked, selected, cmd, nops, thr >>

Next ==
    \/ setChannel
    \/ setAllChannels
    \/ setAllChannelsList
    \/ getChannel
    \/ getAllChannels
    \/ isChannelOpen
    \/ isChannelFault
    \/ Update
    \/ Uniform
    \/ Loop
    \/ Lock
    \/ Select
    \/ Write
    \/ Exchange
    \/ Unselect
    \/ Done
    \/ Unlock
    \/ Resume

Spec == Init /\ [][Next]_vars

\* self.lock() raises: the except clause keeps the exception in ex, and the
\* statements after the try block run as on every other path.
LockRaises ==
    /\ pc = "lock"
    /\ bus' = Append(bus, "lock raised")
    /\ thrown' \in Exceptions
    /\ ex' = thrown'
    /\ pc' = "unselect"
    /\ UNCHANGED << reg, i, stat, outcome, ret, chip, locked, selected, sent >>
    /\ UNCHANGED frame

\* self.select() raises, with the lock taken.
SelectRaises ==
    /\ pc = "select"
    /\ bus' = Append(bus, "select raised")
    /\ thrown' \in Exceptions
    /\ ex' = thrown'
    /\ pc' = "unselect"
    /\ UNCHANGED << reg, i, stat, outcome, ret, chip, locked, selected, sent >>
    /\ UNCHANGED frame

\* One mode-set call and one read call, over a collaborator whose lock() and
\* select() may raise like its write() and exchange().
NextAcq ==
    \/ setChannel
    \/ getChannel
    \/ Update
    \/ Lock
    \/ LockRaises
    \/ Select
    \/ SelectRaises
    \/ Write
    \/ Exchange
    \/ Unselect
    \/ Done
    \/ Unlock
    \/ Resume

SpecAcq == Init /\ [][NextAcq]_vars

(***************************************************************************)
(* Two callers in setChannel on the same instance.  Each thread has its    *)
(* own channel, mode and ex; self.reg, the lock and the bus are shared.    *)
(* The assignment of _update reads the byte of self.reg, computes, and     *)
(* stores the byte: the other thread can run between the read and the      *)
(* store.  lock() blocks while the other thread holds the lock.            *)
(***************************************************************************)
\* Variables of the single caller, which the two threads do not use.
solo == << pc, opName, channel, mode, modes, i, ex, thrown, stat, outcome, ret,
           bus, pre, chipPre, cmd, nops >>

\* _update: channel *= 2; if channel < 8 the byte is self.reg[1], else self.reg[0]
ByteOf(c) == IF 2 * c < 8 THEN 1 ELSE 0

Goto(t, p) == [thr EXCEPT ![t].pc = p]

\* thread t calls setChannel(c, m)
RaceCall ==
    \E t \in Callers :
        /\ thr[t].pc = "idle"
        /\ \E c \in Channels, m \in Modes :
              thr' = [thr EXCEPT ![t] = [NotCalling EXCEPT !.pc = "load", !.channel = c, !.mode = m]]
        /\ UNCHANGED << reg, chip, locked, selected, sent >>
        /\ UNCHANGED solo

\* _update, right-hand side: the thread reads its byte of self.reg
RaceLoad ==
    \E t \in Callers :
        /\ thr[t].pc = "load"
        /\ thr' = [thr EXCEPT ![t].pc = "store", ![t].byte = reg[ByteOf(thr[t].channel)]]
        /\ UNCHANGED << reg, chip, locked, selected, sent >>
        /\ UNCHANGED solo

\* Variant: the store recomputes the byte from self.reg as it is now.
RaceStore_rereads ==
    \E t \in Callers :
        /\ thr[t].pc = "store"
        /\ reg' = _update(reg, thr[t].channel, thr[t].mode)
        /\ thr' = [thr EXCEPT ![t].pc = "lock",
                              ![t].stale = (thr[t].byte # reg[ByteOf(thr[t].channel)])]
        /\ UNCHANGED << chip, locked, selected, sent >>
        /\ UNCHANGED solo

\* _update, assignment: the byte computed from the value read is stored.
\* stale records that the byte had changed since this thread read it.
RaceStore ==
    \E t \in Callers :
        /\ thr[t].pc = "store"
        /\ reg' = _update([reg EXCEPT ![ByteOf(thr[t].channel)] = thr[t].byte],
                          thr[t].channel, thr[t].mode)
        /\ thr' = [thr EXCEPT ![t].pc = "lock",
                              ![t].stale = (thr[t].byte # reg[ByteOf(thr[t].channel)])]
        /\ UNCHANGED << chip, locked, selected, sent >>
        /\ UNCHANGED solo

\* self.lock(), which waits for the other thread to unlock
RaceLock ==
    \E t \in Callers :
        /\ thr[t].pc = "lock"
        /\ locked = 0
        /\ locked' = 1
        /\ thr' = Goto(t, "select")
        /\ UNCHANGED << reg, chip, selected, sent >>
        /\ UNCHANGED solo

\* self.select()
RaceSelect ==
    \E t \in Callers :
        /\ thr[t].pc = "select"
        /\ selected' = selected + 1
        /\ thr' = Goto(t, "transfer")
        /\ UNCHANGED << reg, chip, locked, sent >>
        /\ UNCHANGED solo

\* self.write(self.reg), which sends the shadow as it is at that moment
RaceWrite ==
    \E t \in Callers :
        /\ thr[t].pc = "transfer"
        /\ sent' = Append(sent, reg)
        /\ \/ /\ chip' = reg
              /\ thr' = Goto(t, "unselect")
           \/ /\ chip' \in {chip, reg}
              /\ \E e \in Exceptions :
                    thr' = [thr EXCEPT ![t].pc = "unselect", ![t].ex = e]
        /\ UNCHANGED << reg, locked, selected >>
        /\ UNCHANGED solo

\* self.unselect()
RaceUnselect ==
    \E t \in Callers :
        /\ thr[t].pc = "unselect"
        /\ selected' = selected - 1
        /\ thr' = Goto(t, "done")
        /\ UNCHANGED << reg, chip, locked, sent >>
        /\ UNCHANGED solo

\* self.done()
RaceDone ==
    \E t \in Callers :
        /\ thr[t].pc = "done"
        /\ thr' = Goto(t, "unlock")
        /\ UNCHANGED << reg, chip, locked, selected, sent >>
        /\ UNCHANGED solo

\* self.unlock(), after which setChannel returns or raises ex
RaceUnlock ==
    \E t \in Callers :
        /\ thr[t].pc = "unlock"
        /\ locked' = locked - 1
        /\ thr' = Goto(t, "ret")
        /\ UNCHANGED << reg, chip, selected, sent >>
        /\ UNCHANGED solo

NextRace ==
    \/ RaceCall
    \/ RaceLoad
    \/ RaceStore
    \/ RaceLock
    \/ RaceSelect
    \/ RaceWrite
    \/ RaceUnselect
    \/ RaceDone
    \/ RaceUnlock

SpecRace == Init /\ [][NextRace]_vars

\* The per-channel mode calls: setChannel and the four methods that call it
\* with a fixed mode.
NextChannel ==
    \/ setChannel
    \/ channelInputMode
    \/ channelStandby
    \/ channelOn
    \/ channelOff
    \/ Update
    \/ Lock
    \/ Select
    \/ Write
    \/ Unselect
    \/ Done
    \/ Unlock
    \/ Resume

SpecChannel == Init /\ [][NextChannel]_vars

TypeOK ==
    /\ reg \in [0 .. 1 -> Byte]
    /\ chip \in [0 .. 1 -> Byte]
    /\ locked \in 0 .. 1
    /\ selected \in 0 .. 1

(***************************************************************************)
(* Vocabulary of the properties.                                           *)
(***************************************************************************)
Pow4(n) == 4 ^ n

\* The 2-bit field of channel c in the 2-byte word w: byte 1 at offset 2c
\* for c < 4, byte 0 at offset 2(c - 4) otherwise.
Field(w, c) ==
    IF c < 4 THEN (w[1] \div Pow4(c)) % 4 ELSE (w[0] \div Pow4(c - 4)) % 4

\* The byte that packs the modes f[lo], ..., f[lo + 3], low channel first.
Pack(f, lo) ==
    f[lo] + 4 * f[lo + 1] + 16 * f[lo + 2] + 64 * f[lo + 3]

Zero == [k \in 0 .. 1 |-> 0]

\* Positions at which the current call has finished changing reg.
Updated == pc \notin {"idle", "update", "uniform", "loop"}

\* The collaborator calls of the current public call other than done(),
\* and the five calls every public call is to make, in order.
NotDone(e) == e # "done"

Bracket ==
    << "lock", "select", IF opName \in Getters THEN "exchange" ELSE "write",
       "unselect", "unlock" >>

IsPrefix(s, t) == Len(s) <= Len(t) /\ SubSeq(t, 1, Len(s)) = s

\* A step taken between two calls leaves the chip and the shadow alone.
BetweenCallsKeepsWords ==
    (pc \in {"ret", "idle"}) => (chip' = chip /\ reg' = reg)

\* A step that makes the chip and the shadow differ is the shadow update of
\* a mode-set call.
OnlyShadowUpdateSeparates ==
    (chip = reg /\ chip' # reg') =>
        (opName \in Setters /\ pc \in {"update", "uniform", "loop"} /\ chip' = chip)

\* How many times the call e occurs in the log s.
Count(s, e) == Cardinality({k \in 1 .. Len(s) : s[k] = e})

\* The status word [0b01000000, 0b00000000], byte 0 first.
ScenarioWord == [k \in 0 .. 1 |-> IF k = 0 THEN 64 ELSE 0]

(***************************************************************************)
(* C1: after setChannel(c, m) the field of channel c decoded from the      *)
(* shadow equals m and the fields of the seven other channels are what     *)
(* they were before the call.                                              *)
(***************************************************************************)
C1_SetChannelSetsOnlyItsField ==
    (opName = "setChannel" /\ Updated) =>
        /\ Field(reg, channel) = mode
        /\ \A d \in Channels \ {channel} : Field(reg, d) = Field(pre, d)

\* setChannel has returned after replacing a different non-zero mode of
\* its channel, with all the other channels in non-zero modes.
C1_Witness ==
    /\ opName = "setChannel"
    /\ pc = "ret"
    /\ Field(pre, channel) \notin {CH_STANDBY, mode}
    /\ \A d \in Channels \ {channel} : Field(pre, d) # CH_STANDBY

(***************************************************************************)
(* C2: between the shadow updates of the mode-set calls, the shadow is     *)
(* the exact packing of the last mode commanded for each channel (Standby  *)
(* when none was): byte 1 packs channels 0..3, byte 0 channels 4..7.       *)
(* From construction, setChannel(0, On) leaves byte 1 = 2, and a           *)
(* following setChannel(7, Off) leaves byte 0 = 192 and byte 1 = 2.        *)
(***************************************************************************)
C2_ShadowPacksCommandedModes ==
    /\ (pc = "idle" \/ Updated) =>
          /\ reg[1] = Pack(cmd, 0)
          /\ reg[0] = Pack(cmd, 4)
    /\ (opName = "setChannel" /\ Updated /\ pre = Zero
           /\ channel = 0 /\ mode = CH_ON) =>
          reg = [Zero EXCEPT ![1] = 2]
    /\ (opName = "setChannel" /\ Updated /\ pre = [Zero EXCEPT ![1] = 2]
           /\ channel = 7 /\ mode = CH_OFF) =>
          reg = [Zero EXCEPT ![0] = 192, ![1] = 2]

\* The second call of the scenario has returned.
C2_Witness ==
    /\ opName = "setChannel"
    /\ pc = "ret"
    /\ nops = 2
    /\ pre = [Zero EXCEPT ![1] = 2]
    /\ channel = 7
    /\ mode = CH_OFF
    /\ cmd = [c \in Channels |-> IF c = 0 THEN CH_ON ELSE IF c = 7 THEN CH_OFF ELSE CH_STANDBY]

(***************************************************************************)
(* C3: after the uniform setAllChannels(m) every channel decodes to m,     *)
(* both bytes equal m * 0b01010101, and for m = Standby the shadow is      *)
(* [0, 0] whatever it was before.                                          *)
(***************************************************************************)
C3_UniformSetsEveryChannel ==
    (opName = "setAllChannels" /\ Updated) =>
        /\ \A c \in Channels : Field(reg, c) = mode
        /\ reg[0] = mode * 85
        /\ reg[1] = mode * 85
        /\ (mode = CH_STANDBY => reg = Zero)

\* setAllChannels(Standby) has returned from a shadow with non-zero modes
\* in both bytes.
C3_Witness ==
    /\ opName = "setAllChannels"
    /\ pc = "ret"
    /\ mode = CH_STANDBY
    /\ pre[0] # 0
    /\ pre[1] # 0

(***************************************************************************)
(* C4: after the per-channel setAllChannels(seq), with seq of length 0..8, *)
(* each channel whose entry is a mode is at that mode, and each channel    *)
(* whose entry is None or whose index is >= len(seq) is at its prior mode. *)
(***************************************************************************)
C4_ListSetsListedChannelsOnly ==
    (opName = "setAllChannelsList" /\ Updated) =>
        \A c \in Channels :
            IF c < Len(modes) /\ modes[c + 1] # None
            THEN Field(reg, c) = modes[c + 1][1]
            ELSE Field(reg, c) = Field(pre, c)

\* A list shorter than 8 with a None entry and an entry that changes its
\* channel has been applied to a shadow whose skipped channels (the None
\* one and a trailing one) were not in Standby.
C4_Witness ==
    /\ opName = "setAllChannelsList"
    /\ pc = "ret"
    /\ Len(modes) < NumChannels
    /\ \E c \in 0 .. (Len(modes) - 1) :
          modes[c + 1] = None /\ Field(pre, c) # CH_STANDBY
    /\ \E c \in 0 .. (Len(modes) - 1) :
          modes[c + 1] # None /\ modes[c + 1][1] # Field(pre, c)
    /\ \E c \in Len(modes) .. (NumChannels - 1) : Field(pre, c) # CH_STANDBY

(***************************************************************************)
(* C5: getChannel, getAllChannels, isChannelOpen and isChannelFault never  *)
(* change the shadow: at every point of such a call, whether the exchange  *)
(* returned a status word or raised, reg is what it was before the call.   *)
(***************************************************************************)
C5_GettersKeepShadow ==
    (opName \in Getters) => reg = pre

\* A getter has returned a status word that differs from the shadow.
C5_Witness ==
    /\ opName \in Getters
    /\ pc = "ret"
    /\ outcome = "returned"
    /\ reg # Zero
    /\ Field(stat, 0) # Field(reg, 0)
    /\ Field(stat, 4) # Field(reg, 4)

(***************************************************************************)
(* C6: every public call makes, in this order and once each, the calls     *)
(* lock, select, one transfer (write for the mode-set methods, exchange    *)
(* for the getters), unselect, unlock; it makes no second transfer, and    *)
(* the payload of the transfer is the shadow as it stands at the transfer. *)
(* Checked for a collaborator whose lock() and select() do not raise.      *)
(***************************************************************************)
C6_OneBracketedTransfer ==
    (opName # "none") =>
        /\ IsPrefix(SelectSeq(bus, NotDone), Bracket)
        /\ Len(sent) <= 1
        /\ (Len(sent) = 1 => sent[1] = reg)
        /\ (pc = "ret" => SelectSeq(bus, NotDone) = Bracket /\ Len(sent) = 1)

\* A mode-set call that changed the shadow has returned with its bracket
\* complete.
C6_Witness ==
    /\ pc = "ret"
    /\ opName \in Setters
    /\ outcome = "returned"
    /\ reg # pre
    /\ bus = << "lock", "select", "write", "unselect", "done", "unlock" >>
    /\ sent = << reg >>

(***************************************************************************)
(* C7: when the transfer raises, the call still makes unselect once and    *)
(* unlock once before the error reaches the caller, raises that same       *)
(* error and returns no status value; so between calls the lock and unlock *)
(* counts are equal and the select and unselect counts are equal, however  *)
(* many transfers failed.                                                  *)
(***************************************************************************)
C7_FailedTransferStillReleases ==
    /\ (thrown # "none" /\ pc = "ret") => outcome = "raised"
    /\ (outcome = "raised") =>
          /\ Count(bus, "unselect") = 1
          /\ Count(bus, "unlock") = 1
          /\ thrown \in Exceptions
          /\ ret = thrown
    /\ (pc \in {"idle", "ret"}) => (locked = 0 /\ selected = 0)

\* A getter whose exchange raised has ended, after an earlier mode-set
\* call whose write had raised too (the chip was left behind the shadow).
C7_Witness ==
    /\ pc = "ret"
    /\ opName \in Getters
    /\ outcome = "raised"
    /\ thrown = "TimeoutError"
    /\ chipPre # pre

(***************************************************************************)
(* C8 (as stated): getAllChannels() with the exchange returning            *)
(* [0b01000000, 0b00000000] returns (0,0,0,0,1,0,0,0).                     *)
(***************************************************************************)
C8_Original ==
    (opName = "getAllChannels" /\ outcome = "returned" /\ stat = ScenarioWord) =>
        ret = << 0, 0, 0, 0, 1, 0, 0, 0 >>

(***************************************************************************)
(* C8 (amended): getAllChannels() with the exchange returning              *)
(* [0b01000000, 0b00000000] returns (0,0,0,0,0,0,0,1): bits 6-7 of byte 0  *)
(* are channel 7, whose Fault bit is set; all other channels are 0.        *)
(***************************************************************************)
C8_ScenarioDecodesChannel7 ==
    (opName = "getAllChannels" /\ outcome = "returned" /\ stat = ScenarioWord) =>
        ret = << 0, 0, 0, 0, 0, 0, 0, 1 >>

\* getAllChannels has returned from an exchange that gave the scenario's word.
C8_Witness ==
    /\ opName = "getAllChannels"
    /\ pc = "ret"
    /\ outcome = "returned"
    /\ stat = ScenarioWord

(***************************************************************************)
(* C9: for the status word s of the exchange, getChannel(c) returns        *)
(* (s[1] >> 2c) & 3 for c < 4 and (s[0] >> 2(c-4)) & 3 otherwise, and      *)
(* element c of the tuple of getAllChannels() is that same value, for      *)
(* c = 0..7 in order: the byte/bit mapping setChannel encodes with.        *)
(***************************************************************************)
C9_GettersDecodeByChannel ==
    /\ (opName = "getChannel" /\ outcome = "returned") =>
          ret = Field(stat, channel)
    /\ (opName = "getAllChannels" /\ outcome = "returned") =>
          /\ Len(ret) = NumChannels
          /\ \A c \in Channels :
                /\ ret[c + 1] = Field(stat, c)
                /\ ret[c + 1] = getChannelResult(stat, c)
                /\ Field(_update(bytearray2, c, ret[c + 1]), c) = ret[c + 1]

\* getChannel has returned a non-zero code for a channel of byte 0 from a
\* word whose byte 1 holds another code at the same offset.
C9_Witness ==
    /\ opName = "getChannel"
    /\ pc = "ret"
    /\ outcome = "returned"
    /\ channel >= 4
    /\ ret # 0
    /\ ret # Field(stat, channel - 4)

(***************************************************************************)
(* C10 (as stated): in every reachable state, also after mode-set calls    *)
(* whose write failed, a read leaves the chip's commanded mode of every    *)
(* channel as it was immediately before the read.                          *)
(***************************************************************************)
C10_Original ==
    (opName \in Getters) =>
        \A c \in Channels : Field(chip, c) = Field(chipPre, c)

(***************************************************************************)
(* C10 (amended): a read transmits the shadow unchanged, so it leaves the  *)
(* chip's commanded mode of every channel as it was before the read        *)
(* whenever the chip's command word equalled the shadow when the read      *)
(* began; when it did not (a write had failed), an exchange that succeeds  *)
(* loads the shadow into the chip.                                         *)
(***************************************************************************)
C10_ReadResendsShadow ==
    (opName \in Getters) =>
        /\ (Len(sent) = 1 => sent[1] = pre)
        /\ (chipPre = pre => chip = chipPre)
        /\ (Len(sent) = 1 /\ thrown = "none" => chip = pre)

\* A getter has returned with the chip's word as it was, all channels of
\* the chip in non-zero modes.
C10_Witness ==
    /\ opName \in Getters
    /\ pc = "ret"
    /\ outcome = "returned"
    /\ chipPre = pre
    /\ chip = chipPre
    /\ \A c \in Channels : Field(chip, c) # CH_STANDBY

(***************************************************************************)
(* C11: when the write of setChannel(c, m) raises, the call ends with that *)
(* exception and the shadow is not rolled back: field c of the shadow is   *)
(* m and the other fields are as before the call, although the write did   *)
(* not succeed.                                                            *)
(***************************************************************************)
C11_FailedSetChannelKeepsUpdate ==
    (opName = "setChannel" /\ thrown # "none") =>
        /\ (pc = "ret" => outcome = "raised" /\ ret = thrown)
        /\ Field(reg, channel) = mode
        /\ \A d \in Channels \ {channel} : Field(reg, d) = Field(pre, d)

\* setChannel has raised after changing the mode of its channel, and the
\* chip still holds the word it had before the call.
C11_Witness ==
    /\ opName = "setChannel"
    /\ pc = "ret"
    /\ outcome = "raised"
    /\ Field(pre, channel) # mode
    /\ pre # Zero
    /\ chip = chipPre
    /\ chip # reg

(***************************************************************************)
(* C14: isChannelOpen(c) is true exactly when bit 1 of the status field of *)
(* channel c is set and isChannelFault(c) exactly when bit 0 is set, each  *)
(* after a single exchange; a field of 0b00 makes both false.              *)
(***************************************************************************)
C14_OpenAndFaultTestOneBit ==
    (opName \in {"isChannelOpen", "isChannelFault"} /\ outcome = "returned") =>
        /\ Count(bus, "exchange") = 1
        /\ Count(bus, "write") = 0
        /\ Len(sent) = 1
        /\ opName = "isChannelOpen" =>
               ret = ((Field(stat, channel) \div 2) % 2 = 1)
        /\ opName = "isChannelFault" =>
               ret = (Field(stat, channel) % 2 = 1)
        /\ Field(stat, channel) = 0 => ret = FALSE

\* isChannelOpen has answered TRUE on a field with only bit 1 set, a field
\* on which isChannelFault answers FALSE.
C14_Witness ==
    /\ opName = "isChannelOpen"
    /\ outcome = "returned"
    /\ Field(stat, channel) = 2
    /\ ret = TRUE
    /\ ~isChannelFaultResult(stat, channel)

(***************************************************************************)
(* C15: the per-channel form of setAllChannels issues exactly one          *)
(* write-only transaction, and only after every entry of the sequence has  *)
(* been applied to the shadow: nothing is transferred while the loop runs, *)
(* and the one payload is the fully updated shadow, whatever the number of *)
(* entries that are not None, zero included.                               *)
(***************************************************************************)
C15_ListWritesOnceAfterLoop ==
    (opName = "setAllChannelsList") =>
        /\ pc = "loop" => bus = << >> /\ sent = << >>
        /\ Count(bus, "exchange") = 0
        /\ Count(bus, "write") = Len(sent)
        /\ Len(sent) <= 1
        /\ pc = "ret" => Len(sent) = 1
        /\ Len(sent) = 1 =>
               /\ i = Len(modes)
               /\ sent[1] = reg
               /\ \A c \in Channels :
                      IF c < Len(modes) /\ modes[c + 1] # None
                      THEN Field(sent[1], c) = modes[c + 1][1]
                      ELSE Field(sent[1], c) = Field(pre, c)

\* A list call has ended after changing at least two channels, so that the
\* shadow went through a partially updated word inside the loop.
C15_Witness ==
    /\ opName = "setAllChannelsList"
    /\ pc = "ret"
    /\ sent = << reg >>
    /\ \E c, d \in 0 .. (Len(modes) - 1) :
          /\ c # d
          /\ modes[c + 1] # None /\ modes[c + 1][1] # Field(pre, c)
          /\ modes[d + 1] # None /\ modes[d + 1][1] # Field(pre, d)

\* A list call without any mode in it has ended with its one write.
C15_WitnessNoEntry ==
    /\ opName = "setAllChannelsList"
    /\ pc = "ret"
    /\ \A k \in 1 .. Len(modes) : modes[k] = None
    /\ Len(modes) > 0
    /\ sent = << reg >>
    /\ reg # Zero

(***************************************************************************)
(* C13: channelStandby(c), channelInputMode(c), channelOn(c) and           *)
(* channelOff(c) have exactly the effect of setChannel(c, code) with code  *)
(* 0b00, 0b01, 0b10 and 0b11: the shadow is the one setChannel computes    *)
(* from the shadow before the call, and the call runs the same single      *)
(* write-only transaction with that shadow as payload.                     *)
(***************************************************************************)
C13_WrappersAreSetChannel ==
    \A w \in Wrappers :
        LET code == CASE w = "channelStandby" -> 0
                      [] w = "channelInputMode" -> 1
                      [] w = "channelOn" -> 2
                      [] w = "channelOff" -> 3
        IN  opName = w =>
                /\ mode = code
                /\ cmd[channel] = code
                /\ pc = "update" => reg = pre /\ bus = << >> /\ sent = << >>
                /\ Updated =>
                       /\ reg = _update(pre, channel, code)
                       /\ Field(reg, channel) = code
                       /\ \A d \in Channels \ {channel} : Field(reg, d) = Field(pre, d)
                /\ IsPrefix(bus, << "lock", "select", "write", "unselect", "done", "unlock" >>)
                /\ sent \in {<< >>, << reg >>}
                /\ Len(sent) = Count(bus, "write")
                /\ pc = "ret" => Len(bus) = 6 /\ sent = << reg >>
                /\ (pc = "ret" /\ thrown = "none") => outcome = "returned" /\ ret = None /\ chip = reg
                /\ (pc = "ret" /\ thrown # "none") => outcome = "raised" /\ ret = thrown

\* channelOn has returned after switching a channel that was not on, on a
\* shadow that held other modes already.
C13_Witness ==
    /\ opName = "channelOn"
    /\ pc = "ret"
    /\ outcome = "returned"
    /\ Field(pre, channel) # 2
    /\ Field(reg, channel) = 2
    /\ \E d \in Channels \ {channel} : Field(reg, d) # 0
    /\ sent = << reg >>

C17_ReleaseOnlyWhatWasAcquired ==
    /\ Count(bus, "unlock") <= Count(bus, "lock")
    /\ Count(bus, "unselect") <= Count(bus, "select")
    /\ locked \in {0, 1}
    /\ selected \in {0, 1}

(***************************************************************************)
(* C12: two callers run setChannel at the same time on one instance, for   *)
(* two different channels.  The read-modify-write of the shadow byte is    *)
(* not atomic and the bus lock covers the transfer only: a caller's mode   *)
(* is missing from the shadow exactly when the other caller stored a byte  *)
(* it had read before that mode was stored, which happens only for two     *)
(* channels of the same byte, and then the last payload written lacks the  *)
(* mode as well.  The lock is held by one caller at a time.                *)
(***************************************************************************)
C12_StaleStoreLosesTheOtherMode ==
    /\ locked \in {0, 1}
    /\ selected <= locked
    /\ \A t, u \in Callers :
          (/\ t # u
           /\ thr[t].channel # thr[u].channel
           /\ thr[t].pc \notin {"idle", "load", "store"}
           /\ thr[u].pc \notin {"idle", "load", "store"}) =>
              /\ (Field(reg, thr[t].channel) # thr[t].mode) <=> thr[u].stale
              /\ thr[u].stale => ByteOf(thr[t].channel) = ByteOf(thr[u].channel)
              /\ thr[u].stale => ~thr[t].stale
              /\ (thr[t].pc = "ret" /\ thr[u].pc = "ret") =>
                     Len(sent) = 2 /\ sent[2] = reg

\* Both calls have returned without error, for two channels of the same
\* byte; the shadow, the last payload and the chip lack the mode of A.
C12_Witness ==
    /\ thr["A"].pc = "ret" /\ thr["B"].pc = "ret"
    /\ thr["A"].ex = "none" /\ thr["B"].ex = "none"
    /\ thr["A"].channel # thr["B"].channel
    /\ ByteOf(thr["A"].channel) = ByteOf(thr["B"].channel)
    /\ Field(reg, thr["A"].channel) # thr["A"].mode
    /\ Field(reg, thr["B"].channel) = thr["B"].mode
    /\ sent[Len(sent)] = reg
    /\ chip = reg

====
